---------------------------- MODULE Spec2Model ----------------------------
(***************************************************************************)
(* A model of the han package: the vocabulary (han/vocabulary.py) and the  *)
(* sentence model, its factory and the sentence classifier                 *)
(* (han/model/sentence.py).                                                *)
(*                                                                         *)
(* A str is a sequence of one-character strings, so that iterating a str   *)
(* (what collections.Counter.update does with it) is something the model   *)
(* can do.  Indices are 0-based as in Python; TLA+ sequences are 1-based,  *)
(* so position i of a Python list is element i+1 of the sequence.          *)
(***************************************************************************)
EXTENDS Integers, Sequences, FiniteSets, TLC

(***************************************************************************)
(* Bounds of the vocabulary model.                                         *)
(***************************************************************************)
MaxWords == 2
MaxSentences == 2
MaxMatrixBatch == 2

(***************************************************************************)
(* Bounds of the sentence model: the longest index sequence and the        *)
(* largest batch given to forward.                                         *)
(***************************************************************************)
MaxLen == 2
MaxBatch == 2

VARIABLES
    sentences,      \* the corpus last given to build_vocabulary
    vocabulary,     \* the Vocabulary object build_vocabulary returned
    result,         \* what the last call on the vocabulary returned
    args,           \* the arguments SentenceClassifier.__init__ was given
    clf,            \* the SentenceClassifier; clf.han is its SentenceModel
    ret             \* what the last call on clf or clf.han returned

vocabVars == <<sentences, vocabulary, result>>

modelVars == <<args, clf, ret>>

vars == <<sentences, vocabulary, result, args, clf, ret>>

(***************************************************************************)
(* Strings.                                                                *)
(***************************************************************************)
\* The characters in code point order.
Alphabet == <<"a", "b", "e", "g", "l", "s", "u">>

blue == <<"b", "l", "u", "e">>
glass == <<"g", "l", "a", "s", "s">>

\* The tokens a corpus is made of.
Words == {blue, glass}

\* The keys looked up: the words, and every one-character string.
Keys == Words \cup {<<Alphabet[i]>> : i \in 1..Len(Alphabet)}

PadIds == {-1, 0, 1}

SeqsUpTo(S, n) == UNION {[1..k -> S] : k \in 0..n}

Range(s) == {s[i] : i \in 1..Len(s)}

\* The function f on 1..n as a tuple, and the function m of two arguments as
\* a tuple of rows: the values are computed once, when the tensor is made.
List(f) == f \o <<>>

Rows(m) == List([t \in DOMAIN m |-> List(m[t])])

Ord(c) == CHOOSE i \in 1..Len(Alphabet) : Alphabet[i] = c

\* Python's < on str: lexicographic by code point, a proper prefix first.
RECURSIVE StrLess(_, _)
StrLess(s, t) ==
    IF Len(t) = 0 THEN FALSE
    ELSE IF Len(s) = 0 THEN TRUE
    ELSE IF Ord(s[1]) # Ord(t[1]) THEN Ord(s[1]) < Ord(t[1])
    ELSE StrLess(Tail(s), Tail(t))

\* Iterating a str yields its characters, each a str of length one.
IterStr(s) == [i \in 1..Len(s) |-> <<s[i]>>]

RECURSIVE Concat(_)
Concat(ss) == IF Len(ss) = 0 THEN <<>> ELSE Head(ss) \o Concat(Tail(ss))

RECURSIVE CountOf(_, _)
CountOf(k, s) ==
    IF Len(s) = 0 THEN 0
    ELSE (IF Head(s) = k THEN 1 ELSE 0) + CountOf(k, Tail(s))

RECURSIVE MaxOf(_)
MaxOf(s) ==
    IF Len(s) = 0 THEN 0
    ELSE LET m == MaxOf(Tail(s)) IN IF Head(s) > m THEN Head(s) ELSE m

(***************************************************************************)
(* torchtext.vocab, as build_vocabulary uses it.                           *)
(***************************************************************************)
\* (word for words in sentences for word in words): yields the words.
WordGenerator(ss) == Concat(ss)

\* build_vocab_from_iterator(iterator): for tokens in iterator:
\* counter.update(tokens).  Each element the iterator yields is iterated;
\* here the elements are str, so the counted keys are their characters.
\* The keys are sorted by key, then (stably) by descending frequency, and
\* numbered from 0; no special token is given, and no default index is set.
BuildVocabFromIterator(iterator) ==
    LET counted == Concat([i \in 1..Len(iterator) |-> IterStr(iterator[i])])
        keys == Range(counted)
        Before(k1, k2) ==
            \/ CountOf(k1, counted) > CountOf(k2, counted)
            \/ /\ CountOf(k1, counted) = CountOf(k2, counted)
               /\ StrLess(k1, k2)
        Rank(k) == Cardinality({k2 \in keys : Before(k2, k)})
    IN  [itos |-> [i \in 1..Cardinality(keys) |->
                        CHOOSE k \in keys : Rank(k) = i - 1],
         has_default |-> FALSE,
         default_index |-> 0]

\* Vocab.set_default_index(index)
SetDefaultIndex(vocab, index) ==
    [vocab EXCEPT !.has_default = TRUE, !.default_index = index]

\* Vocab.__contains__(token)
VocabContains(vocab, token) == \E i \in 1..Len(vocab.itos) : vocab.itos[i] = token

\* Vocab.__getitem__(token): the token's index, or the default index for a
\* token that is not in the vocabulary (a RuntimeError if none is set).
VocabGetItem(vocab, token) ==
    IF VocabContains(vocab, token)
    THEN (CHOOSE i \in 1..Len(vocab.itos) : vocab.itos[i] = token) - 1
    ELSE vocab.default_index

\* torch.nn.utils.rnn.pad_sequence(sequences, batch_first=False,
\* padding_value): a (L, B) matrix, L the longest length, column b holding
\* sequence b followed by padding_value.  An empty list raises.
PadSequence(sequences, padding_value) ==
    IF Len(sequences) = 0 THEN [error |-> TRUE, shape |-> <<0, 0>>, data |-> <<>>]
    ELSE LET L == MaxOf([b \in 1..Len(sequences) |-> Len(sequences[b])])
             B == Len(sequences)
         IN  [error |-> FALSE,
              shape |-> <<L, B>>,
              data |-> Rows([t \in 1..L |-> [b \in 1..B |->
                          IF t <= Len(sequences[b]) THEN sequences[b][t]
                          ELSE padding_value]])]

(***************************************************************************)
(* han/vocabulary.py                                                       *)
(***************************************************************************)
\* Vocabulary.__init__(vocab, pad_id)
NewVocabulary(vocab, pad_id) == [built |-> TRUE, vocab |-> vocab, pad_id |-> pad_id]

\* build_vocabulary(sentences, pad_id)
build_vocabulary(ss, pad_id) ==
    LET vocab == BuildVocabFromIterator(WordGenerator(ss))
    IN  NewVocabulary(SetDefaultIndex(vocab, pad_id), pad_id)

\* Vocabulary.__getitem__(key)
getitem(self, key) == VocabGetItem(self.vocab, key)

\* Vocabulary.__len__()
len(self) == Len(self.vocab.itos)

\* Vocabulary.create_matrix(sentences)
create_matrix(self, ss) ==
    PadSequence(
        [b \in 1..Len(ss) |-> [w \in 1..Len(ss[b]) |-> VocabGetItem(self.vocab, ss[b][w])]],
        self.pad_id)

NoVocabulary ==
    [built |-> FALSE,
     vocab |-> [itos |-> <<>>, has_default |-> FALSE, default_index |-> 0],
     pad_id |-> 0]

NoResult == [op |-> "none", arg |-> <<>>, value |-> 0]

VocabInit ==
    /\ sentences = <<>>
    /\ vocabulary = NoVocabulary
    /\ result = NoResult
    /\ args = <<>>
    /\ clf = <<>>
    /\ ret = <<>>

\* v = build_vocabulary(sentences, pad_id)
BuildVocabulary ==
    /\ ~vocabulary.built
    /\ \E ss \in SeqsUpTo(SeqsUpTo(Words, MaxWords), MaxSentences), pad_id \in PadIds :
        /\ sentences' = ss
        /\ vocabulary' = build_vocabulary(ss, pad_id)
        /\ result' = NoResult
    /\ UNCHANGED modelVars

\* v[key]
GetItem ==
    /\ vocabulary.built
    /\ \E key \in Keys :
        result' = [op |-> "getitem", arg |-> key, value |-> getitem(vocabulary, key)]
    /\ UNCHANGED <<sentences, vocabulary>>
    /\ UNCHANGED modelVars

\* len(v)
GetLen ==
    /\ vocabulary.built
    /\ result' = [op |-> "len", arg |-> <<>>, value |-> len(vocabulary)]
    /\ UNCHANGED <<sentences, vocabulary>>
    /\ UNCHANGED modelVars

\* v.create_matrix(batch)
CreateMatrix ==
    /\ vocabulary.built
    /\ \E batch \in SeqsUpTo(SeqsUpTo(Words, MaxWords), MaxMatrixBatch) :
        result' = [op |-> "create_matrix", arg |-> batch,
                   value |-> create_matrix(vocabulary, batch)]
    /\ UNCHANGED <<sentences, vocabulary>>
    /\ UNCHANGED modelVars

VocabNext == BuildVocabulary \/ GetItem \/ GetLen \/ CreateMatrix

SpecVocab == VocabInit /\ [][VocabNext]_vars

(***************************************************************************)
(* Claims about the vocabulary.                                            *)
(***************************************************************************)
CorpusTokens == Range(Concat(sentences))

\* C1: the token set of the vocabulary built from a corpus is exactly the set
\* of distinct tokens of the corpus.
C1_TokenSetIsCorpusTokens ==
    vocabulary.built => Range(vocabulary.vocab.itos) = CorpusTokens

\* C2: looking up a token that does not occur in the corpus returns pad_id.
C2_UnknownTokenGivesPadId ==
    (result.op = "getitem" /\ result.arg \notin CorpusTokens)
        => result.value = vocabulary.pad_id

\* C3: every token of the corpus has a non-negative index of its own, which is
\* not the padding index.
C3_CorpusTokenIndexUniqueNotPad ==
    vocabulary.built =>
        \A t1 \in CorpusTokens :
            /\ getitem(vocabulary, t1) >= 0
            /\ getitem(vocabulary, t1) # vocabulary.pad_id
            /\ \A t2 \in CorpusTokens :
                t1 # t2 => getitem(vocabulary, t1) # getitem(vocabulary, t2)

\* C4: the matrix of a batch has (longest length) rows and (batch size)
\* columns; column i holds length[i] non-pad indices, then only the pad index.
\* Stated for the batches made of tokens of the corpus (any other token is
\* looked up to the pad index).
C4_MatrixShapeAndPadding ==
    (/\ result.op = "create_matrix"
     /\ ~result.value.error
     /\ Range(Concat(result.arg)) \subseteq CorpusTokens) =>
        LET batch == result.arg
            m == result.value
            L == MaxOf([b \in 1..Len(batch) |-> Len(batch[b])])
        IN  /\ m.shape = <<L, Len(batch)>>
            /\ \A b \in 1..Len(batch) : \A t \in 1..L :
                IF t <= Len(batch[b])
                THEN m.data[t][b] # vocabulary.pad_id
                ELSE m.data[t][b] = vocabulary.pad_id

(***************************************************************************)
(* han/model/sentence.py                                                   *)
(*                                                                         *)
(* Tensors of reals are modelled with bounded integers: an embedding row   *)
(* and a hidden state are each one integer, a vector's width is kept in    *)
(* the tensor's shape, and a softmax weight is the rational num/den with   *)
(* 2 as the base of the exponential.  None is the empty tuple and a        *)
(* supplied argument v is <<v>>.                                           *)
(***************************************************************************)
None == <<>>

Some(v) == <<v>>

DefaultEmbeddingDim == 200
DefaultPaddingIdx == 0
DefaultGruHiddenSize == 50
DefaultSentenceDim == 100

\* What Python takes for false in `v or default`.
Falsy(v) == ToString(v) \in {"0", "FALSE"}

get_default_or(v, default) == IF v = None \/ Falsy(v[1]) THEN default ELSE v[1]

\* get_default(v, default): default if v is None else v
get_default(v, default) == IF v = None THEN default ELSE v[1]

Rat(n, d) == [num |-> n, den |-> d]

RECURSIVE Pow2(_)
Pow2(n) == IF n <= 0 THEN 1 ELSE 2 * Pow2(n - 1)

RECURSIVE SumTo(_, _)
\* f[1] + ... + f[n]
SumTo(f, n) == IF n = 0 THEN 0 ELSE f[n] + SumTo(f, n - 1)

\* nn.Embedding(num_embeddings, embedding_dim, padding_idx, sparse); a
\* negative padding_idx counts from the end of the table.
Embedding(num_embeddings, embedding_dim, padding_idx, sparse) ==
    [num_embeddings |-> num_embeddings,
     embedding_dim |-> embedding_dim,
     padding_idx |-> IF padding_idx < 0 THEN num_embeddings + padding_idx
                     ELSE padding_idx,
     sparse |-> sparse]

\* Row i of the embedding table; the row of padding_idx is zero.
EmbeddingWeight(embedding, i) == IF i = embedding.padding_idx THEN 0 ELSE i + 1

\* nn.Embedding.forward(x): every index replaced by its row.
EmbeddingForward(embedding, x) ==
    [shape |-> x.shape \o <<embedding.embedding_dim>>,
     data |-> Rows([t \in 1..x.shape[1] |-> [b \in 1..x.shape[2] |->
                 EmbeddingWeight(embedding, x.data[t][b])]])]

\* nn.GRU(input_size, hidden_size, bidirectional=True)
Gru(input_size, hidden_size) ==
    [input_size |-> input_size, hidden_size |-> hidden_size]

\* One step of the forward and of the reverse direction: the new hidden state
\* from the previous one and the input.  A hidden state of a real step is not
\* zero.
GruCell(h, x) == 1 + ((h + x) % 3)

GruCellReverse(h, x) == 1 + ((2 * h + x + 1) % 3)

\* The sequences in descending length order (ties in input order), as
\* torch.sort(lengths, descending=True) numbers them.
SortedIndices(lengths) ==
    LET B == Len(lengths)
        Before(b1, b2) ==
            \/ lengths[b1] > lengths[b2]
            \/ lengths[b1] = lengths[b2] /\ b1 < b2
        Rank(b) == Cardinality({b2 \in 1..B : Before(b2, b)})
    IN  List([i \in 1..B |-> CHOOSE b \in 1..B : Rank(b) = i - 1])

\* invert_permutation
InvertPermutation(p) ==
    List([b \in 1..Len(p) |-> CHOOSE i \in 1..Len(p) : p[i] = b])

PackError ==
    [error |-> TRUE, dim |-> 0, data |-> <<>>, batch_sizes |-> <<>>,
     sorted_indices |-> <<>>, unsorted_indices |-> <<>>]

\* torch.nn.utils.rnn.pack_padded_sequence(x, lengths, enforce_sorted=False):
\* the batch sorted by descending length, then laid out step by step, each
\* step holding only the sequences that are that long.  A length of 0 raises.
PackPaddedSequence(x, lengths) ==
    IF \E b \in 1..Len(lengths) : lengths[b] <= 0 THEN PackError
    ELSE LET sorted_indices == SortedIndices(lengths)
             L == MaxOf(lengths)
             batch_sizes == List([t \in 1..L |->
                Cardinality({b \in 1..Len(lengths) : lengths[b] >= t})])
         IN  [error |-> FALSE,
              dim |-> x.shape[3],
              data |-> Concat([t \in 1..L |-> [i \in 1..batch_sizes[t] |->
                          x.data[t][sorted_indices[i]]]]),
              batch_sizes |-> batch_sizes,
              sorted_indices |-> sorted_indices,
              unsorted_indices |-> InvertPermutation(sorted_indices)]

\* Where step t of the i-th sequence (in sorted order) lies in packed.data.
PackedAt(packed, t, i) == SumTo(packed.batch_sizes, t - 1) + i

PackedLen(packed, i) ==
    Cardinality({t \in 1..Len(packed.batch_sizes) : packed.batch_sizes[t] >= i})

RECURSIVE GruHidden(_, _, _)
\* The forward direction's hidden state after step t, from a zero state.
GruHidden(packed, t, i) ==
    IF t = 0 THEN 0
    ELSE GruCell(GruHidden(packed, t - 1, i), packed.data[PackedAt(packed, t, i)])

RECURSIVE GruHiddenReverse(_, _, _)
\* The reverse direction's hidden state at step t, from a zero state after
\* the sequence's last step.
GruHiddenReverse(packed, t, i) ==
    IF t > PackedLen(packed, i) THEN 0
    ELSE GruCellReverse(GruHiddenReverse(packed, t + 1, i),
                        packed.data[PackedAt(packed, t, i)])

\* nn.GRU.forward(packed)[0]: both directions' hidden states of every real
\* step, in the layout of the input.
GruForward(gru, packed) ==
    LET step == Concat([t \in 1..Len(packed.batch_sizes) |->
                    [i \in 1..packed.batch_sizes[t] |-> <<t, i>>]])
    IN  [packed EXCEPT
            !.dim = 2 * gru.hidden_size,
            !.data = List([k \in 1..Len(step) |->
                <<GruHidden(packed, step[k][1], step[k][2]),
                  GruHiddenReverse(packed, step[k][1], step[k][2])>>])]

\* What pad_packed_sequence fills the padded steps with: 0.0 in every place.
ZeroVector == <<0, 0>>

\* torch.nn.utils.rnn.pad_packed_sequence(packed)[0]: a (L, B, dim) tensor,
\* zero at the padded steps, the batch back in its original order.
PadPackedSequence(packed) ==
    LET L == Len(packed.batch_sizes)
        B == Len(packed.sorted_indices)
        padded == Rows([t \in 1..L |-> [i \in 1..B |->
                     IF i <= packed.batch_sizes[t]
                     THEN packed.data[PackedAt(packed, t, i)]
                     ELSE ZeroVector]])
    IN  [shape |-> <<L, B, packed.dim>>,
         data |-> Rows([t \in 1..L |-> [b \in 1..B |->
                     padded[t][packed.unsorted_indices[b]]]])]

\* a.AttentionModel(input_dim, output_dim)
AttentionModel(input_dim, output_dim) ==
    [input_dim |-> input_dim, output_dim |-> output_dim]

\* The learned score of a step vector, and its projection.
AttentionScore(v) == (v[1] + 2 * v[2]) % 3

AttentionProjection(v) == v[1] + v[2]

\* AttentionModel.forward(x): the attention weights, a softmax of the scores
\* over the real steps of each sequence (a padded step weighs nothing), and
\* the pooled vectors, of width output_dim.
AttentionForward(attention, x) ==
    LET L == x.shape[1]
        B == x.shape[2]
        weight == Rows([t \in 1..L |-> [b \in 1..B |->
                     IF x.data[t][b] = ZeroVector THEN 0
                     ELSE Pow2(AttentionScore(x.data[t][b]))]])
        total == List([b \in 1..B |-> SumTo([t \in 1..L |-> weight[t][b]], L)])
    IN  [error |-> FALSE,
         x |-> [shape |-> <<B, attention.output_dim>>,
                data |-> List([b \in 1..B |->
                    SumTo([t \in 1..L |->
                        weight[t][b] * AttentionProjection(x.data[t][b])], L)
                    \div total[b]])],
         alpha |-> [shape |-> <<L, B>>,
                    data |-> Rows([t \in 1..L |-> [b \in 1..B |->
                                Rat(weight[t][b], total[b])]])]]

\* SentenceModel.__init__(embedding, gru_hidden_size, sentence_dim)
SentenceModel(embedding, gru_hidden_size, sentence_dim) ==
    [_embedding |-> embedding,
     _gru |-> Gru(embedding.embedding_dim, gru_hidden_size),
     _attention_model |-> AttentionModel(gru_hidden_size * 2, sentence_dim),
     gru_hidden_size |-> gru_hidden_size,
     sentence_dim |-> sentence_dim]

\* The lengths of the columns of the padded matrix.
_get_lengths_padded(x) ==
    [b \in 1..Len(x) |-> MaxOf([c \in 1..Len(x) |-> Len(x[c])])]

\* SentenceModel._get_lengths(x)
_get_lengths(x) == List([b \in 1..Len(x) |-> Len(x[b])])

\* SentenceModel._pad_sequence(x)
_pad_sequence(self, x) == PadSequence(x, self._embedding.padding_idx)

\* Packing that keeps no record of the order it sorted the batch into.
_pack_embeddings_unrestored(x, lengths) ==
    LET packed == PackPaddedSequence(x, lengths)
    IN  IF packed.error THEN packed
        ELSE [packed EXCEPT
                !.unsorted_indices = [b \in 1..Len(lengths) |-> b]]

\* SentenceModel._pack_embeddings(x, lengths)
_pack_embeddings(x, lengths) == PackPaddedSequence(x, lengths)

\* What a forward call that raised leaves its caller with.
ForwardError ==
    [error |-> TRUE,
     x |-> [shape |-> <<>>, data |-> <<>>],
     alpha |-> [shape |-> <<>>, data |-> <<>>]]

\* SentenceModel.forward(x)
SentenceModelForward(self, x) ==
    LET lengths == _get_lengths(x)
        padded == _pad_sequence(self, x)
    IN  IF padded.error THEN ForwardError
        ELSE LET embedded == EmbeddingForward(self._embedding, padded)
                 packed == _pack_embeddings(embedded, lengths)
             IN  IF packed.error THEN ForwardError
                 ELSE AttentionForward(self._attention_model,
                        PadPackedSequence(GruForward(self._gru, packed)))

\* nn.Module.parameters() of the embedding, the GRU (one layer, two
\* directions) and the attention model; a parameter is named by its identity.
EmbeddingParameters == <<"_embedding.weight">>

GruParameters ==
    <<"_gru.weight_ih_l0", "_gru.weight_hh_l0",
      "_gru.bias_ih_l0", "_gru.bias_hh_l0",
      "_gru.weight_ih_l0_reverse", "_gru.weight_hh_l0_reverse",
      "_gru.bias_ih_l0_reverse", "_gru.bias_hh_l0_reverse">>

AttentionParameters ==
    <<"_attention_model.weight", "_attention_model.bias",
      "_attention_model.context">>

LinearParameters == <<"linear.weight", "linear.bias">>

\* SentenceModel.parameters()
SentenceModelParameters(self) ==
    EmbeddingParameters \o GruParameters \o AttentionParameters

\* SentenceModel.sparse_dense_parameters()
SentenceModelSparseDense(self) ==
    IF self._embedding.sparse
    THEN LET sparse == EmbeddingParameters[1]
             IsNotSparse(p) == p # sparse
         IN  [sparse |-> <<sparse>>,
              dense |-> SelectSeq(SentenceModelParameters(self), IsNotSparse)]
    ELSE [sparse |-> <<>>, dense |-> EmbeddingParameters]

\* SentenceModelFactory._create(embedding, gru_hidden_size, sentence_dim)
FactoryCreateModel(embedding, gru_hidden_size, sentence_dim) ==
    SentenceModel(embedding,
                  get_default(gru_hidden_size, DefaultGruHiddenSize),
                  get_default(sentence_dim, DefaultSentenceDim))

\* SentenceModelFactory.create(vocabulary_size, padding_idx, embedding_dim,
\* embedding_sparse, gru_hidden_size, sentence_dim)
FactoryCreate(vocabulary_size, padding_idx, embedding_dim, embedding_sparse, gru_hidden_size, sentence_dim) ==
    FactoryCreateModel(
        Embedding(vocabulary_size,
                  get_default(embedding_dim, DefaultEmbeddingDim),
                  get_default(padding_idx, DefaultPaddingIdx),
                  get_default(embedding_sparse, TRUE)),
        gru_hidden_size,
        sentence_dim)

\* nn.Linear(in_features, out_features)
Linear(in_features, out_features) ==
    [in_features |-> in_features, out_features |-> out_features]

\* nn.Linear.forward(x): a logit per batch element and class.
LinearForward(linear, x) ==
    [shape |-> <<x.shape[1], linear.out_features>>,
     data |-> Rows([b \in 1..x.shape[1] |-> [c \in 1..linear.out_features |->
                 Rat(c * x.data[b] + (c % 2), 1)]])]

\* nn.functional.softmax(x, dim) of a matrix of logits: along dim, the
\* exponentials over their sum.
Softmax(x, dim) ==
    LET e == Rows([b \in 1..x.shape[1] |-> [c \in 1..x.shape[2] |->
                Pow2(x.data[b][c].num)]])
        Total(b, c) ==
            IF dim = 1 THEN SumTo(e[b], x.shape[2])
            ELSE SumTo([r \in 1..x.shape[1] |-> e[r][c]], x.shape[1])
    IN  [shape |-> x.shape,
         data |-> Rows([b \in 1..x.shape[1] |-> [c \in 1..x.shape[2] |->
                     Rat(e[b][c], Total(b, c))]])]

\* SentenceClassifier.__init__(num_of_classes, vocabulary_size, padding_idx,
\* embedding_dim, embedding_sparse, gru_hidden_size, sentence_dim); a new
\* nn.Module is in training mode.
SentenceClassifier(num_of_classes, vocabulary_size, padding_idx, embedding_dim, embedding_sparse, gru_hidden_size, sentence_dim) ==
    LET han == FactoryCreate(vocabulary_size, padding_idx, embedding_dim,
                             embedding_sparse, gru_hidden_size, sentence_dim)
    IN  [han |-> han,
         linear |-> Linear(han.sentence_dim, num_of_classes),
         training |-> TRUE]

\* forward with the two branches the wrong way round.
ClassifierForward_inverted(self, x) ==
    LET h == SentenceModelForward(self.han, x)
    IN  IF h.error THEN ForwardError
        ELSE LET y == LinearForward(self.linear, h.x)
             IN  IF ~self.training
                 THEN [error |-> FALSE, x |-> y, alpha |-> h.alpha]
                 ELSE [error |-> FALSE, x |-> Softmax(y, 1), alpha |-> h.alpha]

\* SentenceClassifier.forward(x)
ClassifierForward(self, x) ==
    LET h == SentenceModelForward(self.han, x)
    IN  IF h.error THEN ForwardError
        ELSE LET y == LinearForward(self.linear, h.x)
             IN  IF self.training
                 THEN [error |-> FALSE, x |-> y, alpha |-> h.alpha]
                 ELSE [error |-> FALSE, x |-> Softmax(y, 1), alpha |-> h.alpha]

\* SentenceClassifier.parameters()
ClassifierParameters(self) == SentenceModelParameters(self.han) \o LinearParameters

\* SentenceClassifier.sparse_dense_parameters()
ClassifierSparseDense(self) ==
    LET sparse == SentenceModelSparseDense(self.han).sparse
        IsNotSparse(p) == ~\E i \in 1..Len(sparse) : sparse[i] = p
    IN  [sparse |-> sparse,
         dense |-> SelectSeq(ClassifierParameters(self), IsNotSparse)]

(***************************************************************************)
(* The classifier as a state machine: it is constructed, then its caller   *)
(* switches its mode and calls it, one call at a time.                     *)
(***************************************************************************)
VocabularySizes == {2, 3}
NumsOfClasses == {2, 3}
PaddingIdxs == {None, Some(0), Some(1)}
EmbeddingDims == {None, Some(3)}
EmbeddingSparses == {None, Some(TRUE), Some(FALSE)}
GruHiddenSizes == {None, Some(2)}
SentenceDims == {None, Some(4)}

\* Every way of giving or leaving out each hyperparameter.
FactoryArgs ==
    [num_of_classes : NumsOfClasses,
     vocabulary_size : VocabularySizes,
     padding_idx : PaddingIdxs,
     embedding_dim : EmbeddingDims,
     embedding_sparse : EmbeddingSparses,
     gru_hidden_size : GruHiddenSizes,
     sentence_dim : SentenceDims]

\* The classifiers forward is called on: every number of classes and padding
\* index, the widths either all left to their defaults or all given.
ForwardArgs ==
    {r \in FactoryArgs :
        /\ r.vocabulary_size = 2
        /\ r.embedding_sparse = None
        /\ (r.embedding_dim = None) = (r.gru_hidden_size = None)
        /\ (r.embedding_dim = None) = (r.sentence_dim = None)}

NoRet == [op |-> "none", arg |-> <<>>, value |-> <<>>]

\* The batches of index sequences forward is given.
Batches == SeqsUpTo(SeqsUpTo(0..(args.vocabulary_size - 1), MaxLen), MaxBatch)

\* clf = SentenceClassifier(...)
Construct(given) ==
    /\ sentences = <<>>
    /\ vocabulary = NoVocabulary
    /\ result = NoResult
    /\ args = given
    /\ clf = SentenceClassifier(args.num_of_classes, args.vocabulary_size,
                args.padding_idx, args.embedding_dim, args.embedding_sparse,
                args.gru_hidden_size, args.sentence_dim)
    /\ ret = NoRet

ModelInit == \E given \in ForwardArgs : Construct(given)

FactoryInit == \E given \in FactoryArgs : Construct(given)

\* clf.train()
Train ==
    /\ ret = NoRet
    /\ clf' = [clf EXCEPT !.training = TRUE]
    /\ UNCHANGED <<args, ret>>
    /\ UNCHANGED vocabVars

\* clf.eval()
Eval ==
    /\ ret = NoRet
    /\ clf' = [clf EXCEPT !.training = FALSE]
    /\ UNCHANGED <<args, ret>>
    /\ UNCHANGED vocabVars

\* clf.han(x)
HanForward ==
    /\ ret = NoRet
    /\ \E x \in Batches :
        ret' = [op |-> "han_forward", arg |-> x,
                value |-> SentenceModelForward(clf.han, x)]
    /\ UNCHANGED <<args, clf>>
    /\ UNCHANGED vocabVars

\* clf(x)
Forward ==
    /\ ret = NoRet
    /\ \E x \in Batches :
        ret' = [op |-> "forward", arg |-> x,
                value |-> ClassifierForward(clf, x)]
    /\ UNCHANGED <<args, clf>>
    /\ UNCHANGED vocabVars

\* clf.han.sparse_dense_parameters()
HanSparseDenseParameters ==
    /\ ret = NoRet
    /\ ret' = [op |-> "han_sparse_dense", arg |-> <<>>,
               value |-> SentenceModelSparseDense(clf.han)]
    /\ UNCHANGED <<args, clf>>
    /\ UNCHANGED vocabVars

\* clf.sparse_dense_parameters()
SparseDenseParameters ==
    /\ ret = NoRet
    /\ ret' = [op |-> "sparse_dense", arg |-> <<>>,
               value |-> ClassifierSparseDense(clf)]
    /\ UNCHANGED <<args, clf>>
    /\ UNCHANGED vocabVars

\* The caller is done with the value returned and goes on.
Return ==
    /\ ret # NoRet
    /\ ret' = NoRet
    /\ UNCHANGED <<args, clf>>
    /\ UNCHANGED vocabVars

ModelNext ==
    \/ Train
    \/ Eval
    \/ HanForward
    \/ Forward
    \/ Return

SpecModel == ModelInit /\ [][ModelNext]_vars

FactoryNext ==
    \/ Train
    \/ Eval
    \/ HanSparseDenseParameters
    \/ SparseDenseParameters
    \/ Return

SpecFactory == FactoryInit /\ [][FactoryNext]_vars

(***************************************************************************)
(* Claims about the sentence model and the classifier.                     *)
(***************************************************************************)
Called(op) == ret.op = op /\ ~ret.value.error

\* The number of rows of the padded matrix of the batch x.
LongestLength(x) == MaxOf([b \in 1..Len(x) |-> Len(x[b])])

\* C5: in training mode forward returns the logits of the linear layer as
\* they are, in evaluation mode their softmax, which sums to 1 over the
\* classes for every batch element; both with the word attention of the
\* sentence model.  Only the mode at the call decides which.
C5_ForwardOutputFollowsMode ==
    Called("forward") =>
        LET h == SentenceModelForward(clf.han, ret.arg)
            logits == LinearForward(clf.linear, h.x)
            y == ret.value.x
        IN  /\ ret.value.alpha = h.alpha
            /\ y.shape = <<Len(ret.arg), args.num_of_classes>>
            /\ clf.training => y = logits
            /\ ~clf.training =>
                \A b \in 1..y.shape[1] :
                    /\ \A c \in 1..y.shape[2] :
                        /\ y.data[b][c].num = Pow2(logits.data[b][c].num)
                        /\ y.data[b][c].den = y.data[b][1].den
                    /\ SumTo([c \in 1..y.shape[2] |-> y.data[b][c].num], y.shape[2])
                            = y.data[b][1].den

\* An evaluation-mode call on a batch of two sentences of different lengths.
C5_Witness ==
    /\ Called("forward")
    /\ ~clf.training
    /\ Len(ret.arg) = 2
    /\ Len(ret.arg[1]) < Len(ret.arg[2])

C8_ShapesAndOrder ==
    Called("han_forward") =>
        LET x == ret.arg
            L == LongestLength(x)
        IN  /\ \A b \in 1..Len(x) : _get_lengths(x)[b] = Len(x[b])
            /\ _pad_sequence(clf.han, x).shape = <<L, Len(x)>>
            /\ ret.value.x.shape = <<Len(x), clf.han.sentence_dim>>
            /\ Len(ret.value.x.data) = Len(x)
            /\ ret.value.alpha.shape = <<L, Len(x)>>
            /\ \A b \in 1..Len(x) :
                LET alone == SentenceModelForward(clf.han, <<x[b]>>)
                IN  /\ ret.value.x.data[b] = alone.x.data[1]
                    /\ \A t \in 1..Len(x[b]) :
                        ret.value.alpha.data[t][b] = alone.alpha.data[t][1]

\* A batch whose lengths ascend, of two sentences with different vectors.
C8_Witness ==
    /\ Called("han_forward")
    /\ Len(ret.arg) = 2
    /\ Len(ret.arg[1]) < Len(ret.arg[2])
    /\ ret.value.x.data[1] # ret.value.x.data[2]

\* C6: sparse_dense_parameters of the sentence model and of the classifier
\* returns two lists that hold every parameter of the model exactly once,
\* the embedding table in exactly one of them; with a dense embedding the
\* sparse list is empty and the dense list holds every parameter.
C6_SparseDensePartition ==
    (ret.op = "han_sparse_dense" \/ ret.op = "sparse_dense") =>
        LET all == IF ret.op = "han_sparse_dense"
                   THEN SentenceModelParameters(clf.han)
                   ELSE ClassifierParameters(clf)
            both == ret.value.sparse \o ret.value.dense
        IN  /\ CountOf(EmbeddingParameters[1], both) = 1
            /\ \A i, j \in 1..Len(both) : both[i] = both[j] => i = j
            /\ Range(both) = Range(all)
            /\ ~clf.han._embedding.sparse =>
                    /\ ret.value.sparse = <<>>
                    /\ Range(ret.value.dense) = Range(all)

\* C10: a hyperparameter left out takes its default (embedding dim 200,
\* padding index 0, sparse embedding, GRU hidden size 50, sentence dim 100)
\* and one that is given is used as given, 0 and False included.
C10_DefaultsAndGivenValues ==
        LET e == clf.han._embedding
        IN  /\ e.num_embeddings = args.vocabulary_size
            /\ e.embedding_dim =
                    IF args.embedding_dim = None THEN 200 ELSE args.embedding_dim[1]
            /\ e.padding_idx =
                    IF args.padding_idx = None THEN 0 ELSE args.padding_idx[1]
            /\ e.sparse =
                    IF args.embedding_sparse = None THEN TRUE
                    ELSE args.embedding_sparse[1]
            /\ clf.han.gru_hidden_size =
                    IF args.gru_hidden_size = None THEN 50
                    ELSE args.gru_hidden_size[1]
            /\ clf.han._gru.hidden_size = clf.han.gru_hidden_size
            /\ clf.han.sentence_dim =
                    IF args.sentence_dim = None THEN 100 ELSE args.sentence_dim[1]
            /\ clf.linear.in_features = clf.han.sentence_dim

\* A classifier given padding_idx=0 and embedding_sparse=False, its widths
\* left out.
C10_Witness ==
    /\ args.padding_idx = Some(0)
    /\ args.embedding_sparse = Some(FALSE)
    /\ args.embedding_dim = None
    /\ args.gru_hidden_size = None
    /\ args.sentence_dim = Some(4)
    /\ ~clf.han._embedding.sparse
    /\ clf.han._embedding.embedding_dim = 200

=============================================================================
